---------------------------- MODULE Spec2Model ----------------------------
(***************************************************************************)
(* A model of gsc-cli's authentication core: the browser login flow        *)
(* (auth.LoginFlow, with its loopback callback server), the keyring token  *)
(* store and the lazy token refresh (auth.GetValidToken).                  *)
(*                                                                         *)
(* Go's channels, goroutines and select are modelled as the Go runtime      *)
(* executes them: a send on a buffered channel proceeds when the buffer    *)
(* has room and blocks otherwise; a select that finds several cases ready  *)
(* when it is entered takes any one of them; a select that blocks is       *)
(* resumed by the first write to one of its channels (or by its timer),    *)
(* which is handed to it, so that nothing written later competes with it.  *)
(***************************************************************************)
EXTENDS Integers, Sequences, FiniteSets, TLC

(***************************************************************************)
(* Bounds of the model.                                                    *)
(***************************************************************************)
\* Callback requests the environment sends during one login attempt.
MaxRequests == 3
\* LoginFlow calls over the whole run (across process restarts).
MaxAttempts == 2
\* The clock runs from 1 to MaxTime (the zero time.Time is 0).
MaxTime == 5
\* The reporting commands run on the days FirstToday..LastToday, counted
\* from 2023-12-01 (day 1): 2024-02-15 .. 2024-03-20, across the leap day.
FirstToday == 77
LastToday == 111
\* The most rows a result set of the API holds.
MaxRows == 2
\* The largest --days N the reporting commands are run with.
MaxDays == 9

(***************************************************************************)
(* Program constants.                                                      *)
(***************************************************************************)
\* cap of codeChan and of errChan: make(chan ..., 1)
ChanCap == 1
StatusOK == 200
StatusBadRequest == 400
\* dataDelay, and the literal 3 of DefaultDateRange and DateRangeForDays
DataDelay == 3

\* The state argument LoginFlow hands to config.AuthCodeURL.
StateArg == "state"

NoCodeMsg == "no authorization code received"
TimeoutMsg == "authorization timed out after 5 minutes"
SuccessPage == "<html><body><h1>Authorization Successful!</h1><p>You can close this window and return to the terminal.</p><script>window.close();</script></body></html>"

(***************************************************************************)
(* The values the environment supplies.                                    *)
(***************************************************************************)
\* Values of the callback's query parameters; "" is an absent (or empty)
\* parameter: url.Values.Get returns "" for both.
\* The requests the environment sends: the provider's redirect with a code,
\* a request that carries a code, an error and a state the flow never issued,
\* the provider's redirect with an error, and a request with no parameters.
Queries == {[code |-> "AUTH123", error |-> "", state |-> "state"],
            [code |-> "AUTH456", error |-> "access_denied", state |-> "forged"],
            [code |-> "", error |-> "access_denied", state |-> "state"],
            [code |-> "", error |-> "", state |-> ""]}
\* Ports the OS may assign to net.Listen("tcp", "localhost:0").
Ports == {49152, 49153}

VARIABLES
    (* the process *)
    mux,        \* TRUE when "/callback" is registered on http.DefaultServeMux
    attempt,    \* number of LoginFlow calls made so far
    (* the LoginFlow call in progress *)
    pc,         \* where the orchestrator (the goroutine running LoginFlow) is
    listener,   \* "none" | "open" | "closed"
    port,       \* the port of the listener (0: none)
    server,     \* "new" | "shuttingDown" | "closed": the http.Server
    servePc,    \* the goroutine running server.Serve
    codeChan,   \* buffer of codeChan
    errChan,    \* buffer of errChan
    reqs,       \* the callback requests: each handler invocation's state
    timer,      \* "off" | "running" | "fired": time.After(5 * time.Minute)
    authCode,   \* the local variable authCode
    outcome,    \* the select case taken: [kind, val]
    result,     \* what LoginFlow returned: [kind, val]
    printed,    \* the lines LoginFlow printed, in order
    (* history *)
    taken,      \* the results the orchestrator acted on in this attempt
    first,      \* the channel written first in this attempt ("": none yet)
    urls,       \* the authorization URLs built, one per attempt that built one
    exchanges,  \* the code exchanges of this attempt: [code, redirect]
    (* the credential store and the token lifecycle *)
    keyring,    \* the keyring entry of (serviceName, tokenKey): <<>> or <<blob>>
    now,        \* time.Now()
    gv,         \* the GetValidToken call in progress, and what it returned
    cmd,        \* the other command that ran last, and what it returned
    life,       \* what wrote the keyring entry last (history)
    gv2,        \* a second GetValidToken call, running beside the first
    (* the reporting commands *)
    today,      \* the day of time.Now(), as a day number
    dates,      \* the date ranges the command that ran last has computed
    rows,       \* the rows the API returned: [current, previous]
    report      \* what findDrops or buildComparison and sortComparison returned

loginVars == <<mux, attempt, pc, listener, port, server, servePc, codeChan,
               errChan, reqs, timer, authCode, outcome, result, printed, taken,
               first, urls, exchanges>>

tokenVars == <<keyring, now, gv, cmd, life>>

concVars == <<gv2>>

reportVars == <<today, dates, rows, report>>

vars == <<loginVars, tokenVars, concVars, reportVars>>

Reqs == 1..MaxRequests

NoQuery == [code |-> "", error |-> "", state |-> ""]
NoReq == [st |-> "none", q |-> NoQuery, ch |-> "", val |-> "", status |-> 0,
          body |-> ""]
NoOutcome == [kind |-> "None", val |-> ""]
NoResult == [kind |-> "none", val |-> ""]

(***************************************************************************)
(* The error values LoginFlow builds with fmt.Errorf.                      *)
(***************************************************************************)
DeniedError(errMsg) == "authorization failed: " \o errMsg
ServerError(e) == "callback server error: " \o e
ListenError(e) == "could not start callback server: " \o e
ConfigError(e) == "could not read client secret file: " \o e
ExchangeError(e) == "could not exchange authorization code: " \o e
RedirectURL(p) == [host |-> "localhost", port |-> p, path |-> "/callback"]

(***************************************************************************)
(* The /callback handler, as a function of the request's query.            *)
(***************************************************************************)
HandlerErrMsgFixed(q) == NoCodeMsg

\* errMsg: the error parameter, or the fixed text when it is empty too.
HandlerErrMsg(q) == IF q.error = "" THEN NoCodeMsg ELSE q.error
HandlerChanErrorFirst(q) ==
    IF q.error # "" \/ q.code = "" THEN "errChan" ELSE "codeChan"

\* The channel the handler writes: errChan when code is empty.
HandlerChan(q) == IF q.code = "" THEN "errChan" ELSE "codeChan"
\* The value it writes there.
HandlerValue(q) == IF q.code = "" THEN DeniedError(HandlerErrMsg(q)) ELSE q.code
HandlerStatus(q) == IF q.code = "" THEN StatusBadRequest ELSE StatusOK
HandlerBody(q) ==
    IF q.code = ""
    THEN "<html><body><h1>Authorization Failed</h1><p>" \o HandlerErrMsg(q)
            \o "</p></body></html>"
    ELSE SuccessPage

\* config.AuthCodeURL(state, oauth2.AccessTypeOffline, oauth2.ApprovalForce)
AuthCodeURL(state, redirect) ==
    [state |-> state, access_type |-> "offline", prompt |-> "consent",
     redirect_uri |-> redirect, response_type |-> "code"]

(***************************************************************************)
(* Tokens and the credential store.  An oauth2.Token is a record of its    *)
(* four exported fields; Expiry is an instant, 0 being the zero time.Time. *)
(***************************************************************************)
NoToken == [AccessToken |-> "", TokenType |-> "", RefreshToken |-> "",
            Expiry |-> 0]

\* What the provider may answer to a token request: an access token, maybe
\* a token type, maybe a refresh token ("": none in the reply), maybe a
\* lifetime (expires_in, 0: none in the reply), or a refusal.
Lifetimes == {0, 1, 2}
ExchangeReplies == [ok : {TRUE}, access : {"tok1"}, token_type : {"", "Bearer"},
                    refresh : {"", "ref1"}, expires_in : Lifetimes]
RefreshReplies ==
    [ok : {TRUE}, access : {"tok2"}, token_type : {"Bearer"},
     refresh : {"", "ref2"}, expires_in : Lifetimes]
    \cup {[ok |-> FALSE, access |-> "", token_type |-> "", refresh |-> "",
           expires_in |-> 0]}

\* The token the oauth2 package builds from a reply: the expiry is counted
\* from the current time when the reply states a lifetime and is left zero
\* otherwise; a refresh keeps the refresh token it sent when the reply
\* carries none (sent is "" for a code exchange).
TokenFromReply(reply, sent) ==
    [AccessToken |-> reply.access,
     TokenType |-> reply.token_type,
     RefreshToken |-> IF reply.refresh = "" THEN sent ELSE reply.refresh,
     Expiry |-> IF reply.expires_in = 0 THEN 0 ELSE now + reply.expires_in]

\* json.Marshal of a token: the keys of the non-empty string fields
\* (omitempty) and the expiry, each with its value.
JSONKeys(t) ==
    {"access_token", "expiry"}
        \cup (IF t.TokenType = "" THEN {} ELSE {"token_type"})
        \cup (IF t.RefreshToken = "" THEN {} ELSE {"refresh_token"})

MarshalOmitsRefresh(t) ==
    [k \in JSONKeys(t) \ {"refresh_token"} |->
        CASE k = "access_token" -> t.AccessToken
          [] k = "token_type" -> t.TokenType
          [] k = "expiry" -> t.Expiry]

Marshal(t) ==
    [k \in JSONKeys(t) |->
        CASE k = "access_token" -> t.AccessToken
          [] k = "token_type" -> t.TokenType
          [] k = "refresh_token" -> t.RefreshToken
          [] k = "expiry" -> t.Expiry]

\* json.Unmarshal into a zero Token: a key that is absent leaves its field.
Unmarshal(data) ==
    [AccessToken |-> IF "access_token" \in DOMAIN data
                     THEN data["access_token"] ELSE "",
     TokenType |-> IF "token_type" \in DOMAIN data
                   THEN data["token_type"] ELSE "",
     RefreshToken |-> IF "refresh_token" \in DOMAIN data
                      THEN data["refresh_token"] ELSE "",
     Expiry |-> IF "expiry" \in DOMAIN data THEN data["expiry"] ELSE 0]

GetTokenNoNotFound(kr) ==
    IF ~kr
    THEN [err |-> "could not retrieve token from keyring: unavailable",
          found |-> FALSE, token |-> NoToken]
    ELSE IF keyring = <<>>
    THEN [err |-> "could not retrieve token from keyring: secret not found in keyring",
          found |-> FALSE, token |-> NoToken]
    ELSE [err |-> "", found |-> TRUE, token |-> Unmarshal(keyring[1])]

\* GetToken with the keyring backend working (kr) or not: [err, found, token].
GetToken(kr) ==
    IF ~kr
    THEN [err |-> "could not retrieve token from keyring: unavailable",
          found |-> FALSE, token |-> NoToken]
    ELSE IF keyring = <<>>
    THEN [err |-> "", found |-> FALSE, token |-> NoToken]
    ELSE [err |-> "", found |-> TRUE, token |-> Unmarshal(keyring[1])]

NotLoggedIn == "not logged in - run 'gsc auth login' first"

ExpiredAt(t) == t.Expiry <= now

\* token.Expiry.Before(time.Now())
Expired(t) == t.Expiry < now

\* oauth2's Token.Valid, which the token source of config.TokenSource asks
\* before it refreshes: an access token that is set and not expired, a zero
\* expiry meaning that the token never expires.  (The package expires a
\* token 10 seconds early; GetValidToken calls it only with a token whose
\* expiry has passed, where the margin changes nothing.)
Valid(t) == t.AccessToken # "" /\ (t.Expiry = 0 \/ ~(t.Expiry < now))

\* tokenSource.Token() of lines 221-222: the stored token as it is while it
\* is valid; an error without a request when there is no refresh token to
\* send; otherwise one request to the provider.  [err, token, trips]
TokenSourceToken(t, reply) ==
    IF Valid(t)
    THEN [err |-> "", token |-> t, trips |-> 0]
    ELSE IF t.RefreshToken = ""
    THEN [err |-> "oauth2: token expired and refresh token is not set",
          token |-> NoToken, trips |-> 0]
    ELSE IF ~reply.ok
    THEN [err |-> "oauth2: cannot fetch token: invalid_grant",
          token |-> NoToken, trips |-> 1]
    ELSE [err |-> "", token |-> TokenFromReply(reply, t.RefreshToken),
          trips |-> 1]

RefreshTokenDropping(cfgOk, t, reply) ==
    IF ~cfgOk
    THEN [err |-> ConfigError("no such file"), token |-> NoToken, trips |-> 0]
    ELSE LET r == TokenSourceToken(t, reply) IN
         IF r.err # ""
         THEN [r EXCEPT !.err = "could not refresh token: " \o r.err]
         ELSE [r EXCEPT !.token.RefreshToken = reply.refresh]

\* RefreshToken (lines 214-228), with the client secret file readable
\* (cfgOk) or not.
RefreshToken(cfgOk, t, reply) ==
    IF ~cfgOk
    THEN [err |-> ConfigError("no such file"), token |-> NoToken, trips |-> 0]
    ELSE LET r == TokenSourceToken(t, reply) IN
         IF r.err # ""
         THEN [r EXCEPT !.err = "could not refresh token: " \o r.err]
         ELSE r

NoReturn == [kind |-> "none", token |-> NoToken, err |-> ""]
ReturnToken(t) == [kind |-> "token", token |-> t, err |-> ""]
ReturnError(e) == [kind |-> "error", token |-> NoToken, err |-> e]

\* The provider's refusal of a refresh request.
RefreshRefused == [ok |-> FALSE, access |-> "", token_type |-> "",
                   refresh |-> "", expires_in |-> 0]

\* No GetValidToken call in progress.
IdleCall == [pc |-> "idle", token |-> NoToken, old |-> NoToken,
             expired |-> FALSE, trips |-> 0, sets |-> 0,
             ret |-> NoReturn, at |-> 0, had |-> <<>>, kr |-> TRUE, reply |-> RefreshRefused]

\* keyring.Delete(serviceName, tokenKey), with the backend working (kr) or
\* not: the error it returns.
KeyringDelete(kr) ==
    IF ~kr THEN "unavailable"
    ELSE IF keyring = <<>> THEN "ErrNotFound"
    ELSE ""

DeleteTokenStrict(kr) ==
    LET e == KeyringDelete(kr) IN
    IF e = "" THEN [err |-> "", store |-> <<>>]
    ELSE [err |-> "could not delete token from keyring: " \o e,
          store |-> keyring]

DeleteTokenKeeps(kr) ==
    LET e == KeyringDelete(kr) IN
    IF e = "" \/ e = "ErrNotFound" THEN [err |-> "", store |-> keyring]
    ELSE [err |-> "could not delete token from keyring: " \o e,
          store |-> keyring]

\* DeleteToken: [err, store], store being the keyring entry it leaves.
DeleteToken(kr) ==
    LET e == KeyringDelete(kr) IN
    IF e = "" THEN [err |-> "", store |-> <<>>]
    ELSE IF e = "ErrNotFound" THEN [err |-> "", store |-> keyring]
    ELSE [err |-> "could not delete token from keyring: " \o e,
          store |-> keyring]

\* TokenInfo{HasToken: false}
NoInfo == [HasToken |-> FALSE, Expiry |-> 0, IsExpired |-> FALSE,
           TokenType |-> ""]

GetTokenInfoInclusive(kr) ==
    LET g == GetToken(kr) IN
    IF g.err # "" THEN [err |-> g.err, info |-> NoInfo]
    ELSE IF ~g.found THEN [err |-> "", info |-> NoInfo]
    ELSE [err |-> "",
          info |-> [HasToken |-> TRUE, Expiry |-> g.token.Expiry,
                    IsExpired |-> g.token.Expiry <= now,
                    TokenType |-> g.token.TokenType]]

\* GetTokenInfo: [err, info]
GetTokenInfo(kr) ==
    LET g == GetToken(kr) IN
    IF g.err # "" THEN [err |-> g.err, info |-> NoInfo]
    ELSE IF ~g.found THEN [err |-> "", info |-> NoInfo]
    ELSE [err |-> "",
          info |-> [HasToken |-> TRUE, Expiry |-> g.token.Expiry,
                    IsExpired |-> g.token.Expiry < now,
                    TokenType |-> g.token.TokenType]]

\* No command has run, or the last one has returned.  called: GetTokenInfo
\* returned an info; at, had, kr: the time of the command, the keyring entry
\* it found and whether the keyring answered; token: the token handed to
\* SetToken.
NoCmd == [op |-> "none", err |-> "", called |-> FALSE, info |-> NoInfo,
          out |-> "", at |-> 0, had |-> <<>>, kr |-> TRUE, token |-> NoToken]

(***************************************************************************)
(* Dates.  A time is the number of its day, day 1 being 2023-12-01;        *)
(* AddDate(0, 0, k) adds k to it; Format("2006-01-02") turns it into the   *)
(* calendar date, <<year, month, day>>.                                    *)
(***************************************************************************)
Leap(y) == y % 4 = 0 /\ (y % 100 # 0 \/ y % 400 = 0)

DaysIn(y, m) ==
    IF m = 2 THEN (IF Leap(y) THEN 29 ELSE 28)
    ELSE IF m \in {4, 6, 9, 11} THEN 30
    ELSE 31

RECURSIVE CivilFrom(_, _, _)
CivilFrom(y, m, n) ==
    IF n <= DaysIn(y, m) THEN <<y, m, n>>
    ELSE IF m = 12 THEN CivilFrom(y + 1, 1, n - DaysIn(y, m))
    ELSE CivilFrom(y, m + 1, n - DaysIn(y, m))

Format(t) == CivilFrom(2023, 12, t)

\* The days between 2023-12-01 and the first of month m of year y.
RECURSIVE DaysBefore(_, _)
DaysBefore(y, m) ==
    IF y = 2023 /\ m = 12 THEN 0
    ELSE IF m = 1 THEN DaysBefore(y - 1, 12) + DaysIn(y - 1, 12)
    ELSE DaysBefore(y, m - 1) + DaysIn(y, m - 1)

\* The day number a date stands for, as the API reads it.
DayNumber(d) == DaysBefore(d[1], d[2]) + d[3]

\* The number of days of the range from start to end, both included.
DaysCovered(r) == DayNumber(r.end) - DayNumber(r.start) + 1

\* DefaultDateRange at time t
DefaultDateRange(t) ==
    [start |-> Format(t - 30), end |-> Format(t - DataDelay)]

\* DateRangeForDays(days) at time t
DateRangeForDays(t, days) ==
    [start |-> Format(t - DataDelay - days), end |-> Format(t - DataDelay)]

GetComparisonPeriodLong(t, period) ==
    LET currentEnd == t - DataDelay
        currentStart == currentEnd - (IF period = "month" THEN 30 ELSE 6)
        previousEnd == currentStart - 1
        previousStart == previousEnd - (IF period = "month" THEN 30 ELSE 6)
    IN  [cur |-> [start |-> Format(currentStart), end |-> Format(currentEnd)],
         prev |-> [start |-> Format(previousStart),
                   end |-> Format(previousEnd)]]

\* GetComparisonPeriod(period) at time t: [cur, prev]
RECURSIVE GetComparisonPeriod(_, _)
GetComparisonPeriod(t, period) ==
    IF period = "week"
    THEN LET currentEnd == t - DataDelay
             currentStart == currentEnd - 6
             previousEnd == currentStart - 1
             previousStart == previousEnd - 6
         IN  [cur |-> [start |-> Format(currentStart),
                       end |-> Format(currentEnd)],
              prev |-> [start |-> Format(previousStart),
                        end |-> Format(previousEnd)]]
    ELSE IF period = "month"
    THEN LET currentEnd == t - DataDelay
             currentStart == currentEnd - 29
             previousEnd == currentStart - 1
             previousStart == previousEnd - 29
         IN  [cur |-> [start |-> Format(currentStart),
                       end |-> Format(currentEnd)],
              prev |-> [start |-> Format(previousStart),
                        end |-> Format(previousEnd)]]
    ELSE GetComparisonPeriod(t, "week")

\* The reporting commands before they have run.
NoRange == [start |-> <<0, 0, 0>>, end |-> <<0, 0, 0>>]
NoDates == [cmd |-> "none", at |-> 0, days |-> 0, period |-> "",
            cur |-> NoRange, prev |-> NoRange]
NoRows == [current |-> <<>>, previous |-> <<>>]
NoReport == [op |-> "none", threshold |-> 0, minClicks |-> 0, sortBy |-> "",
             limit |-> 0, found |-> <<>>, out |-> <<>>]

(***************************************************************************)
(* The rows of the Search Analytics API and what `gsc drops` and           *)
(* `gsc compare` make of them.  A row is a query with its metrics (the     *)
(* float64 values are whole numbers here); a result set grouped by query   *)
(* holds each query once.                                                  *)
(***************************************************************************)
QueryNames == {"a", "b"}
Metrics == {[Clicks |-> 10, Impressions |-> 100, Position |-> 1],
            [Clicks |-> 3, Impressions |-> 100, Position |-> 6],
            [Clicks |-> 10, Impressions |-> 200, Position |-> 15],
            [Clicks |-> 0, Impressions |-> 50, Position |-> 25]}
QueryRows == {[Query |-> q, Clicks |-> m.Clicks, Impressions |-> m.Impressions,
               Position |-> m.Position] : q \in QueryNames, m \in Metrics}
RowSeqs ==
    {s \in UNION {[1..k -> QueryRows] : k \in 0..MaxRows} :
        \A i, j \in DOMAIN s : s[i].Query = s[j].Query => i = j}

\* The values of --threshold, --min-clicks, --limit and --sort.
Thresholds == {3, 5, 90}
MinClicksValues == {0, 5}
Limits == {1, 50}
SortKeys == {"clicks", "impressions", "position"}

\* The zero QueryRow, which a map returns for a key it does not hold.
ZeroRow == [Query |-> "", Clicks |-> 0, Impressions |-> 0, Position |-> 0]

\* currentMap / prevMap: the rows by query, a later row replacing an earlier.
RowMap(s) ==
    [q \in {s[i].Query : i \in DOMAIN s} |->
        s[CHOOSE i \in DOMAIN s :
            /\ s[i].Query = q
            /\ \A j \in DOMAIN s : s[j].Query = q => j <= i]]

Lookup(m, q) == IF q \in DOMAIN m THEN m[q] ELSE ZeroRow

\* The orders a range over a map, or a sort of rows that differ, can give.
Perms(S) ==
    {p \in [1..Cardinality(S) -> S] :
        \A i, j \in DOMAIN p : p[i] = p[j] => i = j}

\* rows[:limit] when len(rows) > limit
Truncate(s, limit) == IF Len(s) > limit THEN SubSeq(s, 1, limit) ELSE s

\* findDrops: the rows it appends, as a set (it ranges over prevMap).
FindDrops(current, previous, threshold, minClicks) ==
    LET currentMap == RowMap(current)
        prevMap == RowMap(previous)
        Drop(query) ==
            LET prev == prevMap[query]
                curr == Lookup(currentMap, query)
                drop == curr.Position - prev.Position
            IN  IF minClicks > 0 /\ prev.Clicks < minClicks THEN {}
                ELSE IF query \notin DOMAIN currentMap
                THEN IF prev.Position <= 20 /\ prev.Impressions >= 100
                     THEN {[Query |-> query, CurrentPosition |-> 100,
                            PreviousPosition |-> prev.Position,
                            PositionDrop |-> 100 - prev.Position,
                            CurrentClicks |-> 0,
                            PreviousClicks |-> prev.Clicks,
                            CurrentImpressions |-> 0]}
                     ELSE {}
                ELSE IF drop >= threshold
                THEN {[Query |-> query, CurrentPosition |-> curr.Position,
                       PreviousPosition |-> prev.Position,
                       PositionDrop |-> drop,
                       CurrentClicks |-> curr.Clicks,
                       PreviousClicks |-> prev.Clicks,
                       CurrentImpressions |-> curr.Impressions]}
                ELSE {}
    IN  UNION {Drop(query) : query \in DOMAIN prevMap}

\* sort.Slice of `gsc drops`: by PositionDrop, largest first
DropLess(a, b) == a.PositionDrop > b.PositionDrop

\* What sort.Slice can leave of the drops: the rows in an order in which no
\* row is less than one before it.
SortedDrops(S) ==
    {p \in Perms(S) :
        \A i, j \in DOMAIN p : i < j => ~DropLess(p[j], p[i])}

\* ((curr - prev) / prev) * 100 as the exact fraction it stands for, and 0
\* (the field's zero value) when the guard prev > 0 fails.
PercentUnguarded(curr, prev) == [num |-> (curr - prev) * 100, den |-> prev]

Percent(curr, prev) ==
    IF prev > 0 THEN [num |-> (curr - prev) * 100, den |-> prev]
    ELSE [num |-> 0, den |-> 1]

\* buildComparison: the rows it appends, as a set (it ranges over a map).
BuildComparison(current, previous) ==
    LET currentMap == RowMap(current)
        prevMap == RowMap(previous)
        Row(query) ==
            LET curr == Lookup(currentMap, query)
                prev == Lookup(prevMap, query)
            IN  [Query |-> query,
                 CurrentClicks |-> curr.Clicks,
                 PreviousClicks |-> prev.Clicks,
                 ClicksDelta |-> curr.Clicks - prev.Clicks,
                 ClicksPercent |-> Percent(curr.Clicks, prev.Clicks),
                 CurrentImpressions |-> curr.Impressions,
                 PreviousImpressions |-> prev.Impressions,
                 ImpressionsDelta |-> curr.Impressions - prev.Impressions,
                 ImpressionsPercent |->
                     Percent(curr.Impressions, prev.Impressions),
                 CurrentPosition |-> curr.Position,
                 PreviousPosition |-> prev.Position,
                 PositionDelta |-> curr.Position - prev.Position]
    IN  {Row(query) : query \in DOMAIN currentMap \cup DOMAIN prevMap}

\* the less functions of sortComparison
CompareLess(sortBy, a, b) ==
    IF sortBy = "impressions" THEN a.CurrentImpressions > b.CurrentImpressions
    ELSE IF sortBy = "position" THEN a.CurrentPosition < b.CurrentPosition
    ELSE a.CurrentClicks > b.CurrentClicks

\* sortComparison: the orders its sort.Slice can leave.
SortComparison(S, sortBy) ==
    {p \in Perms(S) :
        \A i, j \in DOMAIN p :
            i < j => ~CompareLess(sortBy, p[j], p[i])}

Init ==
    /\ gv2 = IdleCall
    /\ today = FirstToday
    /\ dates = NoDates
    /\ rows = NoRows
    /\ report = NoReport
    /\ keyring = <<>>
    /\ now = 1
    /\ gv = IdleCall
    /\ cmd = NoCmd
    /\ life = "none"
    /\ mux = FALSE
    /\ attempt = 0
    /\ pc = "idle"
    /\ listener = "none"
    /\ port = 0
    /\ server = "new"
    /\ servePc = "none"
    /\ codeChan = <<>>
    /\ errChan = <<>>
    /\ reqs = [r \in Reqs |-> NoReq]
    /\ timer = "off"
    /\ authCode = ""
    /\ outcome = NoOutcome
    /\ result = NoResult
    /\ printed = <<>>
    /\ taken = <<>>
    /\ first = ""
    /\ urls = <<>>
    /\ exchanges = <<>>

\* The state of a fresh call: only the process-wide state survives a call.
FreshCall ==
    /\ server' = "new"
    /\ servePc' = "none"
    /\ codeChan' = <<>>
    /\ errChan' = <<>>
    /\ reqs' = [r \in Reqs |-> NoReq]
    /\ timer' = "off"
    /\ authCode' = ""
    /\ outcome' = NoOutcome
    /\ printed' = <<>>
    /\ taken' = <<>>
    /\ first' = ""
    /\ exchanges' = <<>>

\* defer listener.Close() (line 133), run when LoginFlow returns or panics.
DeferredClose == listener' = "closed"

(***************************************************************************)
(* LoginFlow, lines 122-146: load the client config, bind the listener,    *)
(* make the channels and the server.                                       *)
(***************************************************************************)
CallLoginFlow ==
    /\ pc \in {"idle", "returned"}
    /\ attempt < MaxAttempts
    /\ attempt' = attempt + 1
    /\ FreshCall
    /\ \E cfgOk \in BOOLEAN, listenOk \in BOOLEAN, p \in Ports :
        IF ~cfgOk
        THEN /\ pc' = "returned"
             /\ result' = [kind |-> "error", val |-> ConfigError("no such file")]
             /\ listener' = "none" /\ port' = 0
        ELSE IF ~listenOk
        THEN /\ pc' = "returned"
             /\ result' = [kind |-> "error", val |-> ListenError("listen failed")]
             /\ listener' = "none" /\ port' = 0
        ELSE /\ pc' = "handleFunc"
             /\ result' = NoResult
             /\ listener' = "open" /\ port' = p
    /\ UNCHANGED <<mux, urls>>
    /\ cmd' = NoCmd
    /\ UNCHANGED <<keyring, now, gv, life, concVars, reportVars>>

(***************************************************************************)
(* Lines 148-174: http.HandleFunc registers the handler on the process's   *)
(* DefaultServeMux, which panics on a pattern registered before; the       *)
(* deferred listener.Close() runs while the panic unwinds.  Then the       *)
(* Serve goroutine is started.                                             *)
(***************************************************************************)
RegisterHandler ==
    /\ pc = "handleFunc"
    /\ IF mux
       THEN /\ pc' = "panicked"
            /\ DeferredClose
            /\ UNCHANGED <<mux, servePc>>
       ELSE /\ mux' = TRUE
            /\ servePc' = "serving"
            /\ pc' = "authURL"
            /\ UNCHANGED listener
    /\ UNCHANGED <<attempt, port, server, codeChan, errChan, reqs, timer,
                   authCode, outcome, result, printed, taken, first,
                   urls, exchanges>>
    /\ UNCHANGED <<tokenVars, concVars, reportVars>>

(***************************************************************************)
(* Lines 176-182: build the authorization URL and print it.                *)
(***************************************************************************)
PrintAuthURL ==
    /\ pc = "authURL"
    /\ urls' = Append(urls, AuthCodeURL(StateArg, RedirectURL(port)))
    /\ printed' = printed \o <<"Opening browser for authorization...",
                               "If the browser doesn't open, visit this URL:",
                               "authURL">>
    /\ pc' = "openBrowser"
    /\ UNCHANGED <<mux, attempt, listener, port, server, servePc, codeChan,
                   errChan, reqs, timer, authCode, outcome, result, taken,
                   first, exchanges>>
    /\ UNCHANGED <<tokenVars, concVars, reportVars>>

(***************************************************************************)
(* Lines 184-190: browser.OpenURL, whose failure is only printed; then the *)
(* orchestrator enters the select, which starts the 5 minute timer.        *)
(***************************************************************************)
OpenBrowserAborts ==
    /\ pc = "openBrowser"
    /\ \E ok \in BOOLEAN :
        IF ok
        THEN /\ timer' = "running"
             /\ pc' = "select"
             /\ UNCHANGED <<printed, result, listener>>
        ELSE /\ printed' = Append(printed, "Could not open browser automatically")
             /\ result' = [kind |-> "error", val |-> "could not open browser"]
             /\ pc' = "returned"
             /\ DeferredClose
             /\ UNCHANGED timer
    /\ UNCHANGED <<mux, attempt, port, server, servePc, codeChan,
                   errChan, reqs, authCode, outcome, taken, first, urls, exchanges>>
    /\ UNCHANGED <<tokenVars, concVars, reportVars>>

OpenBrowser ==
    /\ pc = "openBrowser"
    /\ \E ok \in BOOLEAN :
        printed' = IF ok THEN printed
                   ELSE Append(printed, "Could not open browser automatically")
    /\ timer' = "running"
    /\ pc' = "select"
    /\ UNCHANGED <<mux, attempt, listener, port, server, servePc, codeChan,
                   errChan, reqs, authCode, outcome, result, taken, first, urls, exchanges>>
    /\ UNCHANGED <<tokenVars, concVars, reportVars>>

(***************************************************************************)
(* The callback handler (lines 148-168) runs once per request, each in a   *)
(* goroutine of its own.  A request is served only while server.Serve      *)
(* accepts connections.  HandlerArrive is the handler up to its channel    *)
(* send; HandlerFinish is the send, which needs room in the channel's      *)
(* buffer, and the response written after it.                              *)
(***************************************************************************)
HandlerArrive(r, q) ==
    /\ servePc = "serving"
    /\ listener = "open"
    /\ server = "new"
    /\ reqs[r].st = "none"
    /\ r > 1 => reqs[r - 1].st # "none"
    /\ reqs' = [reqs EXCEPT ![r] = [NoReq EXCEPT !.st = "sending", !.q = q]]
    /\ UNCHANGED <<mux, attempt, pc, listener, port, server, servePc, codeChan,
                   errChan, timer, authCode, outcome, result, printed, taken,
                   first, urls, exchanges>>
    /\ UNCHANGED <<tokenVars, concVars, reportVars>>

\* A send on a channel proceeds when its buffer has room.
CanSend(ch) == Len(ch) < ChanCap

\* The orchestrator is in its select and one of the cases is ready: it is
\* resumed with that case before another write or the timer gets in.
SelectWoken ==
    /\ pc = "select"
    /\ codeChan # <<>> \/ errChan # <<>> \/ timer = "fired"

HandlerFinish(r) ==
    /\ reqs[r].st = "sending"
    /\ ~SelectWoken
    /\ LET q == reqs[r].q IN
        /\ IF HandlerChan(q) = "errChan"
           THEN /\ CanSend(errChan)
                /\ errChan' = Append(errChan, HandlerValue(q))
                /\ UNCHANGED codeChan
           ELSE /\ CanSend(codeChan)
                /\ codeChan' = Append(codeChan, HandlerValue(q))
                /\ UNCHANGED errChan
        /\ first' = IF first = "" THEN HandlerChan(q) ELSE first
        /\ reqs' = [reqs EXCEPT ![r] = [st |-> "done", q |-> q,
                                        ch |-> HandlerChan(q),
                                        val |-> HandlerValue(q),
                                        status |-> HandlerStatus(q),
                                        body |-> HandlerBody(q)]]
    /\ UNCHANGED <<mux, attempt, pc, listener, port, server, servePc, timer,
                   authCode, outcome, result, printed, taken, urls,
                   exchanges>>
    /\ UNCHANGED <<tokenVars, concVars, reportVars>>

(***************************************************************************)
(* The Serve goroutine (lines 170-174).  An Accept error makes Serve       *)
(* return an error other than ErrServerClosed (closing the listener on     *)
(* its way out); the goroutine then sends it on errChan.                   *)
(***************************************************************************)
ServeFail ==
    /\ servePc = "serving"
    /\ server = "new"
    /\ listener = "open"
    /\ listener' = "closed"
    /\ servePc' = "sendErr"
    /\ UNCHANGED <<mux, attempt, pc, port, server, codeChan, errChan, reqs,
                   timer, authCode, outcome, result, printed, taken, first, urls, exchanges>>
    /\ UNCHANGED <<tokenVars, concVars, reportVars>>

ServeSendErr ==
    /\ servePc = "sendErr"
    /\ ~SelectWoken
    /\ CanSend(errChan)
    /\ errChan' = Append(errChan, ServerError("accept failed"))
    /\ first' = IF first = "" THEN "errChan" ELSE first
    /\ servePc' = "exited"
    /\ UNCHANGED <<mux, attempt, pc, listener, port, server, codeChan, reqs,
                   timer, authCode, outcome, result, printed, taken,
                   urls, exchanges>>
    /\ UNCHANGED <<tokenVars, concVars, reportVars>>

(***************************************************************************)
(* The select of lines 190-199.  Its three cases; a case is ready when     *)
(* its channel holds a value.  The timer fires only once it was started.   *)
(***************************************************************************)
DeadlineElapses ==
    /\ pc = "select"
    /\ ~SelectWoken
    /\ timer = "running"
    /\ timer' = "fired"
    /\ UNCHANGED <<mux, attempt, pc, listener, port, server, servePc, codeChan,
                   errChan, reqs, authCode, outcome, result, printed, taken,
                   first, urls, exchanges>>
    /\ UNCHANGED <<tokenVars, concVars, reportVars>>

AtSelectOrAfter == pc \in {"select", "shutdown"}

\* The select statement is executed once: the orchestrator is at it only
\* until it has taken a case.
AtSelect == pc = "select"

SelectCode ==
    /\ AtSelect
    /\ codeChan # <<>>
    /\ authCode' = Head(codeChan)
    /\ codeChan' = Tail(codeChan)
    /\ outcome' = [kind |-> "Completed", val |-> Head(codeChan)]
    /\ taken' = Append(taken, outcome')
    /\ pc' = "shutdown"
    /\ UNCHANGED <<mux, attempt, listener, port, server, servePc, errChan,
                   reqs, timer, result, printed, first, urls, exchanges>>
    /\ UNCHANGED <<tokenVars, concVars, reportVars>>

SelectErr ==
    /\ AtSelect
    /\ errChan # <<>>
    /\ errChan' = Tail(errChan)
    /\ outcome' = [kind |-> "Failed", val |-> Head(errChan)]
    /\ taken' = Append(taken, outcome')
    /\ pc' = "shutdown"
    /\ UNCHANGED <<mux, attempt, listener, port, server, servePc, codeChan,
                   reqs, timer, authCode, result, printed, first, urls,
                   exchanges>>
    /\ UNCHANGED <<tokenVars, concVars, reportVars>>

SelectTimeoutNoShutdown ==
    /\ AtSelect
    /\ timer = "fired"
    /\ outcome' = [kind |-> "TimedOut", val |-> TimeoutMsg]
    /\ taken' = Append(taken, outcome')
    /\ pc' = "returned"
    /\ result' = [kind |-> "error", val |-> TimeoutMsg]
    /\ DeferredClose
    /\ UNCHANGED <<mux, attempt, port, server, servePc, codeChan, errChan,
                   reqs, timer, authCode, printed, first, urls, exchanges>>
    /\ UNCHANGED <<tokenVars, concVars, reportVars>>

SelectTimeout ==
    /\ AtSelect
    /\ timer = "fired"
    /\ outcome' = [kind |-> "TimedOut", val |-> TimeoutMsg]
    /\ taken' = Append(taken, outcome')
    /\ pc' = "shutdown"
    /\ UNCHANGED <<mux, attempt, listener, port, server, servePc, codeChan,
                   errChan, reqs, timer, authCode, result, printed, first,
                   urls, exchanges>>
    /\ UNCHANGED <<tokenVars, concVars, reportVars>>

(***************************************************************************)
(* server.Shutdown(context.Background()), called on each of the three      *)
(* paths (lines 194, 197, 201): it closes the listener, which makes Serve  *)
(* return ErrServerClosed, and then waits, with no deadline, until every   *)
(* connection is idle, that is until every running handler has returned.   *)
(***************************************************************************)
ShutdownBegin ==
    /\ pc = "shutdown"
    /\ listener' = "closed"
    /\ server' = "shuttingDown"
    /\ servePc' = IF servePc = "serving" THEN "exited" ELSE servePc
    /\ pc' = "shutdownWait"
    /\ UNCHANGED <<mux, attempt, port, codeChan, errChan, reqs, timer,
                   authCode, outcome, result, printed, taken, first,
                   urls, exchanges>>
    /\ UNCHANGED <<tokenVars, concVars, reportVars>>

HandlersIdle == \A r \in Reqs : reqs[r].st # "sending"

AfterShutdownExchanges ==
    /\ pc' = "exchange"
    /\ UNCHANGED <<result, listener>>

\* What LoginFlow does once Shutdown has returned: return the error of the
\* err and timeout cases (lines 195, 198), or go on to the exchange.
AfterShutdown ==
    IF outcome.kind = "Completed"
    THEN /\ pc' = "exchange"
         /\ UNCHANGED <<result, listener>>
    ELSE /\ pc' = "returned"
         /\ result' = [kind |-> "error", val |-> outcome.val]
         /\ DeferredClose

ShutdownReturn ==
    /\ pc = "shutdownWait"
    /\ HandlersIdle
    /\ server' = "closed"
    /\ AfterShutdown
    /\ UNCHANGED <<mux, attempt, port, servePc, codeChan, errChan,
                   reqs, timer, authCode, outcome, printed, taken, first,
                   urls, exchanges>>
    /\ UNCHANGED <<tokenVars, concVars, reportVars>>

(***************************************************************************)
(* Lines 203-210: config.Exchange(ctx, authCode), one round-trip to the    *)
(* provider with the redirect URL of this attempt.                         *)
(***************************************************************************)
Exchange ==
    /\ pc = "exchange"
    /\ exchanges' = Append(exchanges, [code |-> authCode,
                                       redirect |-> RedirectURL(port)])
    /\ \E ok \in BOOLEAN :
        result' = IF ok THEN [kind |-> "token", val |-> "tok1"]
                  ELSE [kind |-> "error", val |-> ExchangeError("invalid_grant")]
    /\ pc' = "returned"
    /\ DeferredClose
    /\ UNCHANGED <<mux, attempt, port, server, servePc, codeChan,
                   errChan, reqs, timer, authCode, outcome, printed, taken,
                   first, urls>>
    /\ UNCHANGED <<tokenVars, concVars, reportVars>>

(***************************************************************************)
(* The process ends (a panic ends it; after a return the command exits)    *)
(* and the program is run again: the new process has a fresh               *)
(* DefaultServeMux.                                                        *)
(***************************************************************************)
ProcessRestart ==
    /\ pc \in {"returned", "panicked"}
    /\ attempt < MaxAttempts
    /\ mux' = FALSE
    /\ pc' = "idle"
    /\ listener' = "none"
    /\ port' = 0
    /\ result' = NoResult
    /\ FreshCall
    /\ UNCHANGED <<attempt, urls>>
    /\ cmd' = NoCmd
    /\ UNCHANGED <<keyring, now, gv, life, concVars, reportVars>>

(***************************************************************************)
(* GetValidToken (lines 231-253), in its steps: the load and the expiry    *)
(* check, the refresh, the save.  old is the token it loaded, trips the    *)
(* requests it has sent to the provider, sets its calls of SetToken; at,   *)
(* had and kr record the time of the load, the keyring entry it found and  *)
(* whether the keyring answered, reply the provider's reply to the refresh *)
(* request.                                                                *)
(***************************************************************************)
GV_Load ==
    /\ gv.pc = "idle"
    /\ cmd.op = "none"
    /\ \E kr \in BOOLEAN :
        LET g == GetToken(kr)
            call == [IdleCall EXCEPT !.at = now, !.had = keyring, !.kr = kr]
        IN
        gv' = IF g.err # ""
              THEN [call EXCEPT !.pc = "done", !.ret = ReturnError(g.err)]
              ELSE IF ~g.found
              THEN [call EXCEPT !.pc = "done",
                                !.ret = ReturnError(NotLoggedIn)]
              ELSE IF Expired(g.token)
              THEN [call EXCEPT !.pc = "refresh", !.token = g.token,
                                !.old = g.token, !.expired = TRUE]
              ELSE [call EXCEPT !.pc = "done", !.token = g.token,
                                !.old = g.token,
                                !.ret = ReturnToken(g.token)]
    /\ UNCHANGED <<keyring, now, cmd, life>>
    /\ UNCHANGED <<loginVars, concVars, reportVars>>

GV_RefreshClears ==
    /\ gv.pc = "refresh"
    /\ \E cfgOk \in BOOLEAN, reply \in RefreshReplies :
        LET r == RefreshToken(cfgOk, gv.token, reply) IN
        /\ gv' = IF r.err # ""
                 THEN [gv EXCEPT !.pc = "done", !.trips = @ + r.trips,
                                 !.reply = reply, !.ret = ReturnError(r.err)]
                 ELSE [gv EXCEPT !.pc = "save", !.trips = @ + r.trips,
                                 !.reply = reply, !.token = r.token]
        /\ keyring' = IF r.err # "" THEN <<>> ELSE keyring
    /\ UNCHANGED <<now, cmd, life>>
    /\ UNCHANGED <<loginVars, concVars, reportVars>>

GV_Refresh ==
    /\ gv.pc = "refresh"
    /\ \E cfgOk \in BOOLEAN, reply \in RefreshReplies :
        LET r == RefreshToken(cfgOk, gv.token, reply) IN
        gv' = IF r.err # ""
              THEN [gv EXCEPT !.pc = "done", !.trips = @ + r.trips,
                              !.reply = reply, !.ret = ReturnError(r.err)]
              ELSE [gv EXCEPT !.pc = "save", !.trips = @ + r.trips,
                              !.reply = reply, !.token = r.token]
    /\ UNCHANGED <<keyring, now, cmd, life>>
    /\ UNCHANGED <<loginVars, concVars, reportVars>>

SetTokenMerges(t, kr) ==
    IF ~kr THEN UNCHANGED keyring
    ELSE IF keyring = <<>> THEN keyring' = <<Marshal(t)>>
    ELSE keyring' = <<Marshal([t EXCEPT !.Expiry = Unmarshal(keyring[1]).Expiry])>>

\* SetToken(token), with the keyring backend working (kr) or not.
SetToken(t, kr) ==
    IF kr THEN keyring' = <<Marshal(t)>> ELSE UNCHANGED keyring

SetTokenError == "could not store token in keyring: unavailable"

GV_Save ==
    /\ gv.pc = "save"
    /\ \E kr \in BOOLEAN :
        /\ SetToken(gv.token, kr)
        /\ gv' = [gv EXCEPT !.pc = "done", !.sets = @ + 1,
                            !.ret = IF kr THEN ReturnToken(gv.token)
                                    ELSE ReturnError(SetTokenError)]
        /\ life' = IF kr THEN "refreshed" ELSE life
    /\ UNCHANGED <<now, cmd>>
    /\ UNCHANGED <<loginVars, concVars, reportVars>>

\* The call has returned; the program goes on.
GV_Return ==
    /\ gv.pc = "done"
    /\ gv' = IdleCall
    /\ UNCHANGED <<keyring, now, cmd, life>>
    /\ UNCHANGED <<loginVars, concVars, reportVars>>

(***************************************************************************)
(* The other commands, run one at a time while no GetValidToken call is in *)
(* progress.  cmd holds what the command that ran last did and returned,   *)
(* until the program goes on (CmdReturn).                                  *)
(***************************************************************************)
\* `auth login`, from the return of a successful LoginFlow: it saves the
\* token of the provider's reply to the code exchange.
LoginSave ==
    /\ gv.pc = "idle"
    /\ gv2.pc = "idle"
    /\ cmd.op = "none"
    /\ \E reply \in ExchangeReplies, kr \in BOOLEAN :
        LET t == TokenFromReply(reply, "") IN
        /\ SetToken(t, kr)
        /\ cmd' = [NoCmd EXCEPT !.op = "login", !.at = now, !.had = keyring,
                                !.kr = kr, !.token = t,
                                !.err = IF kr THEN ""
                                        ELSE "could not save token: " \o SetTokenError]
        /\ life' = IF kr THEN "login" ELSE life
    /\ UNCHANGED <<now, gv>>
    /\ UNCHANGED <<loginVars, concVars, reportVars>>

\* `auth logout`
Logout ==
    /\ gv.pc = "idle"
    /\ gv2.pc = "idle"
    /\ cmd.op = "none"
    /\ \E kr \in BOOLEAN :
        LET d == DeleteToken(kr) IN
        /\ keyring' = d.store
        /\ cmd' = [NoCmd EXCEPT !.op = "logout", !.at = now, !.had = keyring,
                                !.kr = kr,
                                !.out = IF d.err = ""
                                        THEN "Logged out successfully" ELSE "",
                                !.err = IF d.err = "" THEN ""
                                        ELSE "could not delete token: " \o d.err]
        /\ life' = IF d.err = "" THEN "logout" ELSE life
    /\ UNCHANGED <<now, gv>>
    /\ UNCHANGED <<loginVars, concVars, reportVars>>

\* `auth status`: config.Init (which may fail: initOk), then GetTokenInfo,
\* then the report.
AuthStatus ==
    /\ gv.pc = "idle"
    /\ gv2.pc = "idle"
    /\ cmd.op = "none"
    /\ \E initOk \in BOOLEAN, kr \in BOOLEAN :
        LET i == GetTokenInfo(kr)
            st == [NoCmd EXCEPT !.op = "status", !.at = now, !.had = keyring,
                                !.kr = kr]
        IN
        cmd' = IF ~initOk
               THEN [st EXCEPT !.err = "could not initialize config: could not create config directory"]
               ELSE IF i.err # ""
               THEN [st EXCEPT !.err = "could not get token info: " \o i.err]
               ELSE [st EXCEPT !.called = TRUE, !.info = i.info,
                               !.out = IF ~i.info.HasToken THEN "Not logged in"
                                       ELSE IF i.info.IsExpired
                                       THEN "Expired (will refresh on next use)"
                                       ELSE "Valid"]
    /\ UNCHANGED <<keyring, now, gv, life>>
    /\ UNCHANGED <<loginVars, concVars, reportVars>>

\* The command has returned.
CmdReturn ==
    /\ cmd.op # "none"
    /\ cmd' = NoCmd
    /\ UNCHANGED <<keyring, now, gv, life>>
    /\ UNCHANGED <<loginVars, concVars, reportVars>>

\* Time passes.
Tick ==
    /\ now < MaxTime
    /\ now' = now + 1
    /\ UNCHANGED <<keyring, gv, cmd, life>>
    /\ UNCHANGED <<loginVars, concVars, reportVars>>

(***************************************************************************)
(* A second GetValidToken call (another goroutine, or another run of the   *)
(* program), taking the same steps on the same keyring entry while the     *)
(* first call is in progress.  keyring.Get and keyring.Set each read or    *)
(* replace the whole entry at once.                                        *)
(***************************************************************************)
GV2_Load ==
    /\ gv2.pc = "idle"
    /\ cmd.op = "none"
    /\ \E kr \in BOOLEAN :
        LET g == GetToken(kr)
            call == [IdleCall EXCEPT !.at = now, !.had = keyring, !.kr = kr]
        IN
        gv2' = IF g.err # ""
               THEN [call EXCEPT !.pc = "done", !.ret = ReturnError(g.err)]
               ELSE IF ~g.found
               THEN [call EXCEPT !.pc = "done",
                                 !.ret = ReturnError(NotLoggedIn)]
               ELSE IF Expired(g.token)
               THEN [call EXCEPT !.pc = "refresh", !.token = g.token,
                                 !.old = g.token, !.expired = TRUE]
               ELSE [call EXCEPT !.pc = "done", !.token = g.token,
                                 !.old = g.token,
                                 !.ret = ReturnToken(g.token)]
    /\ UNCHANGED <<keyring, now, gv, cmd, life>>
    /\ UNCHANGED <<loginVars, reportVars>>

GV2_Refresh ==
    /\ gv2.pc = "refresh"
    /\ \E cfgOk \in BOOLEAN, reply \in RefreshReplies :
        LET r == RefreshToken(cfgOk, gv2.token, reply) IN
        gv2' = IF r.err # ""
               THEN [gv2 EXCEPT !.pc = "done", !.trips = @ + r.trips,
                                !.reply = reply, !.ret = ReturnError(r.err)]
               ELSE [gv2 EXCEPT !.pc = "save", !.trips = @ + r.trips,
                                !.reply = reply, !.token = r.token]
    /\ UNCHANGED <<keyring, now, gv, cmd, life>>
    /\ UNCHANGED <<loginVars, reportVars>>

GV2_Save ==
    /\ gv2.pc = "save"
    /\ \E kr \in BOOLEAN :
        /\ SetToken(gv2.token, kr)
        /\ gv2' = [gv2 EXCEPT !.pc = "done", !.sets = @ + 1,
                              !.ret = IF kr THEN ReturnToken(gv2.token)
                                      ELSE ReturnError(SetTokenError)]
        /\ life' = IF kr THEN "refreshed2" ELSE life
    /\ UNCHANGED <<now, gv, cmd>>
    /\ UNCHANGED <<loginVars, reportVars>>

\* One round of two calls, after any logins and at any time.
ConcNext ==
    \/ LoginSave
    \/ CmdReturn
    \/ Tick
    \/ GV_Load
    \/ GV_Refresh
    \/ GV_Save
    \/ GV2_Load
    \/ GV2_Refresh
    \/ GV2_Save

ConcSpec == Init /\ [][ConcNext]_vars

(***************************************************************************)
(* The date ranges of the reporting commands.  at is the day the command   *)
(* ran on; the --start/--end and --from/--to flags are not given.          *)
(***************************************************************************)
\* `gsc queries` / `gsc pages` (root.go, lines 201-209); days = 0: no --days
QueriesRange ==
    /\ \E days \in 0..MaxDays :
        dates' = [NoDates EXCEPT !.cmd = "queries", !.at = today,
                                 !.days = days,
                                 !.cur = IF days > 0
                                         THEN DateRangeForDays(today, days)
                                         ELSE DefaultDateRange(today)]
    /\ UNCHANGED <<today, rows, report>>
    /\ UNCHANGED <<loginVars, tokenVars, concVars>>

\* `gsc drops` (cmd/config.go, lines 115-127).  Each DateRangeForDays reads
\* the clock itself: midnight may pass between the two calls (t2).
DropsRange ==
    /\ \E days \in 1..MaxDays, t2 \in {today, today + 1} :
        /\ t2 <= LastToday
        /\ days <= 7 => t2 = today
        /\ LET p == GetComparisonPeriod(today, "week") IN
           dates' = [NoDates EXCEPT
                        !.cmd = "drops", !.at = today, !.days = days,
                        !.cur = IF days > 7 THEN DateRangeForDays(today, days)
                                ELSE p.cur,
                        !.prev = IF days > 7
                                 THEN DateRangeForDays(t2, days * 2)
                                 ELSE p.prev]
        /\ today' = t2
    /\ UNCHANGED <<rows, report>>
    /\ UNCHANGED <<loginVars, tokenVars, concVars>>

\* `gsc compare` (compare.go, lines 48-57)
CompareRange ==
    /\ \E period \in {"week", "month", "year", ""} :
        LET p == GetComparisonPeriod(today, period) IN
        dates' = [NoDates EXCEPT !.cmd = "compare", !.at = today,
                                 !.period = period, !.cur = p.cur,
                                 !.prev = p.prev]
    /\ UNCHANGED <<today, rows, report>>
    /\ UNCHANGED <<loginVars, tokenVars, concVars>>

\* A day passes.
Midnight ==
    /\ today < LastToday
    /\ today' = today + 1
    /\ UNCHANGED <<dates, rows, report>>
    /\ UNCHANGED <<loginVars, tokenVars, concVars>>

DateNext ==
    \/ QueriesRange
    \/ DropsRange
    \/ CompareRange
    \/ Midnight

DateSpec == Init /\ [][DateNext]_vars

(***************************************************************************)
(* `gsc drops` and `gsc compare` from the results of their two queries:    *)
(* found is what findDrops or buildComparison returned, out the rows the   *)
(* command goes on to print, sorted and cut to --limit.                    *)
(***************************************************************************)
DropsCmd ==
    /\ report.op = "none"
    /\ \E current \in RowSeqs, previous \in RowSeqs, threshold \in Thresholds,
          minClicks \in MinClicksValues, limit \in Limits :
        LET drops == FindDrops(current, previous, threshold, minClicks) IN
        \E found \in Perms(drops), sorted \in SortedDrops(drops) :
            /\ rows' = [current |-> current, previous |-> previous]
            /\ report' = [NoReport EXCEPT !.op = "drops",
                                          !.threshold = threshold,
                                          !.minClicks = minClicks,
                                          !.limit = limit,
                                          !.found = found,
                                          !.out = Truncate(sorted, limit)]
    /\ UNCHANGED <<today, dates>>
    /\ UNCHANGED <<loginVars, tokenVars, concVars>>

CompareCmd ==
    /\ report.op = "none"
    /\ \E current \in RowSeqs, previous \in RowSeqs, sortBy \in SortKeys,
          limit \in Limits :
        LET built == BuildComparison(current, previous) IN
        \E found \in Perms(built), sorted \in SortComparison(built, sortBy) :
            /\ rows' = [current |-> current, previous |-> previous]
            /\ report' = [NoReport EXCEPT !.op = "compare",
                                          !.sortBy = sortBy,
                                          !.limit = limit,
                                          !.found = found,
                                          !.out = Truncate(sorted, limit)]
    /\ UNCHANGED <<today, dates>>
    /\ UNCHANGED <<loginVars, tokenVars, concVars>>

\* The command has printed its rows and the program has ended.
ReportExit ==
    /\ report.op # "none"
    /\ report' = NoReport
    /\ rows' = NoRows
    /\ UNCHANGED <<today, dates>>
    /\ UNCHANGED <<loginVars, tokenVars, concVars>>

DiffNext ==
    \/ DropsCmd
    \/ CompareCmd
    \/ ReportExit

DiffSpec == Init /\ [][DiffNext]_vars

TokenNext ==
    \/ GV_Load
    \/ GV_Refresh
    \/ GV_Save
    \/ GV_Return
    \/ LoginSave
    \/ Logout
    \/ AuthStatus
    \/ CmdReturn
    \/ Tick

TokenSpec == Init /\ [][TokenNext]_vars

(***************************************************************************)
(* `auth login` once LoginFlow has returned (cmd/auth.go, lines 94-103):   *)
(* an error is returned as it is, wrapped; a token is handed to SetToken.  *)
(* The token is the one the provider issued for the code that was          *)
(* exchanged.                                                              *)
(***************************************************************************)
IssuedFor(code) ==
    TokenFromReply([ok |-> TRUE,
                    access |-> IF code = "AUTH123" THEN "tok1" ELSE "tok3",
                    token_type |-> "Bearer", refresh |-> "ref1",
                    expires_in |-> 2], "")

LoginCmdAlwaysSaves ==
    /\ pc = "returned"
    /\ cmd.op = "none"
    /\ \E kr \in BOOLEAN :
        LET t == IF result.kind = "token" THEN IssuedFor(exchanges[1].code)
                 ELSE NoToken
        IN
        /\ SetToken(t, kr)
        /\ cmd' = [NoCmd EXCEPT !.op = "login", !.at = now, !.had = keyring,
                                !.kr = kr, !.token = t,
                                !.err = IF result.kind = "error"
                                        THEN "authentication failed: " \o result.val
                                        ELSE IF kr THEN ""
                                        ELSE "could not save token: " \o SetTokenError]
        /\ life' = IF kr THEN "login" ELSE life
    /\ UNCHANGED <<now, gv>>
    /\ UNCHANGED <<loginVars, concVars, reportVars>>

LoginCmd ==
    /\ pc = "returned"
    /\ cmd.op = "none"
    /\ IF result.kind = "token"
       THEN \E kr \in BOOLEAN :
              LET t == IssuedFor(exchanges[1].code) IN
              /\ SetToken(t, kr)
              /\ cmd' = [NoCmd EXCEPT !.op = "login", !.at = now,
                                      !.had = keyring, !.kr = kr, !.token = t,
                                      !.err = IF kr THEN ""
                                              ELSE "could not save token: " \o SetTokenError]
              /\ life' = IF kr THEN "login" ELSE life
       ELSE /\ cmd' = [NoCmd EXCEPT !.op = "login", !.at = now,
                                    !.had = keyring,
                                    !.err = "authentication failed: " \o result.val]
            /\ UNCHANGED <<keyring, life>>
    /\ UNCHANGED <<now, gv>>
    /\ UNCHANGED <<loginVars, concVars, reportVars>>

Next ==
    \/ LoginCmd
    \/ CallLoginFlow
    \/ RegisterHandler
    \/ PrintAuthURL
    \/ OpenBrowser
    \/ \E r \in Reqs, q \in Queries : HandlerArrive(r, q)
    \/ \E r \in Reqs : HandlerFinish(r)
    \/ ServeFail
    \/ ServeSendErr
    \/ DeadlineElapses
    \/ SelectCode
    \/ SelectErr
    \/ SelectTimeout
    \/ ShutdownBegin
    \/ ShutdownReturn
    \/ Exchange
    \/ ProcessRestart

Spec == Init /\ [][Next]_vars

(***************************************************************************)
(* Properties of the login flow.                                           *)
(***************************************************************************)
\* The orchestrator has entered its select in this call.
Listened == timer # "off"
TerminalKinds == {"Completed", "Failed", "TimedOut"}

\* C1: every login attempt that reached its select resolves to exactly one
\* terminal outcome: the orchestrator acts on at most one result, on none
\* before the select, and on exactly one (a Completed, Failed or TimedOut)
\* from the select on, whatever else is still pending.
C1_OneTerminalOutcome ==
    /\ Len(taken) <= 1
    /\ pc \in {"idle", "handleFunc", "authURL", "openBrowser", "select",
               "panicked"} => taken = <<>> /\ outcome = NoOutcome
    /\ (Listened /\ pc \in {"shutdown", "shutdownWait", "exchange", "returned"})
          => /\ taken = <<outcome>>
             /\ outcome.kind \in TerminalKinds
    /\ (Listened /\ pc = "returned")
          => (outcome.kind = "Completed" <=> Len(exchanges) = 1)

\* A call has returned on a code while an error result is still pending.
C1_Witness ==
    /\ pc = "returned"
    /\ outcome.kind = "Completed"
    /\ errChan # <<>>
    /\ Len(taken) = 1

\* C2: when a code and an error are both pending as the orchestrator takes
\* its select, the outcome is that of the one written first.
C2_FirstEventWins ==
    [][(pc = "select" /\ pc' = "shutdown" /\ codeChan # <<>> /\ errChan # <<>>)
         => outcome'.kind = (IF first = "codeChan" THEN "Completed" ELSE "Failed")]_vars

\* C3: a handler never blocks publishing its result: whenever a handler is
\* at its channel send, the send can proceed.
C3_HandlerNeverBlocks ==
    \A r \in Reqs :
        reqs[r].st = "sending"
            => CanSend(IF HandlerChan(reqs[r].q) = "errChan" THEN errChan
                       ELSE codeChan)

\* C4: every LoginFlow call returns: once the orchestrator has acted on a
\* result and waits in server.Shutdown, either Shutdown can return or one of
\* the handlers it waits for can still finish.
C4_LoginFlowReturns ==
    pc = "shutdownWait"
        => (ENABLED ShutdownReturn) \/ (\E r \in Reqs : ENABLED HandlerFinish(r))

\* C5: on every exit of LoginFlow after the listener was bound, the listener
\* is closed; and when LoginFlow returns after its select (success, denial,
\* timeout, exchange failure) the server is shut down: Shutdown has returned,
\* Serve no longer accepts and no handler is running.
C5_ListenerReleased ==
    /\ (pc \in {"returned", "panicked"} /\ port # 0) => listener = "closed"
    /\ (pc = "returned" /\ Listened)
          => /\ listener = "closed"
             /\ server = "closed"
             /\ servePc # "serving"
             /\ HandlersIdle

\* LoginFlow has returned on the deadline and the listener is closed.
C5_Witness ==
    /\ pc = "returned"
    /\ outcome.kind = "TimedOut"
    /\ port # 0
    /\ listener = "closed"

\* C6: a LoginFlow call that has bound its listener installs its callback
\* route and starts serving, also when an earlier call of the process has
\* resolved before it.
C6_RepeatedLoginListens ==
    (listener # "none" /\ pc # "handleFunc") => servePc # "none"

\* The text of a denial, as the claim words it: the prefix and then the
\* error parameter as it came.
DenialText(reason) == "authorization failed: " \o reason

\* C7: the failures of LoginFlow are distinguishable.  A call that returns
\* with no channel ever written returns the timeout error; a TimedOut
\* outcome is returned as the timeout error and nothing else is; a Failed
\* outcome is returned as its own error, which is the denial of a handled
\* request without a code (with the request's error parameter verbatim, or
\* the fixed text when it has none) or the server's error.
C7_FailuresDistinguishable ==
    (pc = "returned" /\ Listened) =>
        /\ first = "" => result = [kind |-> "error", val |-> TimeoutMsg]
        /\ outcome.kind = "TimedOut" <=> result = [kind |-> "error", val |-> TimeoutMsg]
        /\ outcome.kind = "Failed" =>
            /\ result.kind = "error"
            /\ result.val # TimeoutMsg
            /\ \/ \E r \in Reqs :
                    /\ reqs[r].st = "done"
                    /\ reqs[r].q.code = ""
                    /\ result.val = DenialText(IF reqs[r].q.error = ""
                                               THEN "no authorization code received"
                                               ELSE reqs[r].q.error)
               \/ /\ servePc = "exited"
                  /\ result.val = "callback server error: accept failed"

\* LoginFlow has returned the denial of a callback with error=access_denied.
C7_Witness ==
    /\ pc = "returned"
    /\ outcome.kind = "Failed"
    /\ result.val = "authorization failed: access_denied"

\* C8: the handler classifies a request by its query: a non-empty code is
\* written to codeChan and answered 200 (also when error is present); no code
\* but an error is written to errChan as the denial of that error and
\* answered 400 with the error in the body; neither is the denial "no
\* authorization code received", answered 400.  And a Completed outcome
\* carries the code of a handled request.
C8_HandlerClassifies ==
    /\ \A r \in Reqs :
        reqs[r].st = "done" =>
            LET q == reqs[r].q IN
            /\ q.code # "" =>
                /\ reqs[r].ch = "codeChan"
                /\ reqs[r].val = q.code
                /\ reqs[r].status = 200
                /\ reqs[r].body = SuccessPage
            /\ (q.code = "" /\ q.error # "") =>
                /\ reqs[r].ch = "errChan"
                /\ reqs[r].val = DenialText(q.error)
                /\ reqs[r].status = 400
                /\ reqs[r].body = "<html><body><h1>Authorization Failed</h1><p>"
                                    \o q.error \o "</p></body></html>"
            /\ (q.code = "" /\ q.error = "") =>
                /\ reqs[r].ch = "errChan"
                /\ reqs[r].val = DenialText("no authorization code received")
                /\ reqs[r].status = 400
    /\ outcome.kind = "Completed" =>
        \E r \in Reqs : reqs[r].st = "done" /\ reqs[r].q.code = outcome.val

\* A request with both a code and an error was handled as a success, and
\* the attempt completed with its code.
C8_Witness ==
    /\ \E r \in Reqs :
        /\ reqs[r].st = "done"
        /\ reqs[r].q.code # ""
        /\ reqs[r].q.error # ""
        /\ reqs[r].status = 200
        /\ outcome = [kind |-> "Completed", val |-> reqs[r].q.code]

\* C9: every attempt builds its URL with a state token of its own (the state
\* values of any two attempts differ), asking for offline access and forced
\* re-consent.
C9_FreshStatePerAttempt ==
    /\ \A i, j \in 1..Len(urls) : i # j => urls[i].state # urls[j].state
    /\ \A i \in 1..Len(urls) :
        urls[i].access_type = "offline" /\ urls[i].prompt = "consent"

Stored(entry) == Unmarshal(entry[1])

\* C11: a GetValidToken call that loaded a token whose expiry is not before
\* the time of the call has returned that token as it was stored, has sent
\* no refresh request and has not called SetToken: the store is as it was.
C11_FreshTokenUntouched ==
    (/\ gv.pc = "done"
     /\ gv.kr
     /\ gv.had # <<>>
     /\ ~(Stored(gv.had).Expiry < gv.at)) =>
        /\ gv.ret = ReturnToken(Stored(gv.had))
        /\ gv.trips = 0
        /\ gv.sets = 0
        /\ keyring = gv.had

\* A call has returned a stored token that expires at the very instant of
\* the call, without a request and without a write.
C11_Witness ==
    /\ gv.pc = "done"
    /\ gv.kr
    /\ gv.had # <<>>
    /\ Stored(gv.had).Expiry = gv.at
    /\ gv.ret = ReturnToken(Stored(gv.had))
    /\ gv.trips = 0
    /\ gv.sets = 0
    /\ keyring = gv.had

\* C12: a GetValidToken call whose refresh request the provider refused has
\* returned the refresh error, which is not the not-logged-in error, and
\* has left the keyring entry as it found it, so that GetTokenInfo still
\* reports a token that is present and expired.
C12_RefreshFailureKeepsRecord ==
    (gv.pc = "done" /\ gv.trips = 1 /\ ~gv.reply.ok) =>
        /\ gv.ret = ReturnError("could not refresh token: oauth2: cannot fetch token: invalid_grant")
        /\ gv.ret.err # NotLoggedIn
        /\ gv.sets = 0
        /\ keyring = gv.had
        /\ keyring # <<>>
        /\ GetTokenInfo(TRUE) =
              [err |-> "",
               info |-> [HasToken |-> TRUE, Expiry |-> gv.old.Expiry,
                         IsExpired |-> TRUE, TokenType |-> gv.old.TokenType]]

\* A refresh was refused, and the expired entry is still in the keyring.
C12_Witness ==
    /\ gv.pc = "done"
    /\ gv.trips = 1
    /\ ~gv.reply.ok
    /\ gv.ret.kind = "error"
    /\ keyring = gv.had
    /\ GetTokenInfo(TRUE).info.HasToken
    /\ GetTokenInfo(TRUE).info.IsExpired

\* C13: a GetValidToken call that refreshed with a round-trip and returned
\* a token has stored a token with a refresh token: the one of the entry it
\* loaded when the provider's reply carried none, the reply's otherwise.
\* (Every refresh starts from the entry the last one stored, so this holds
\* along any sequence of refreshes.)
C13_RefreshTokenKept ==
    (gv.pc = "done" /\ gv.trips = 1 /\ gv.ret.kind = "token") =>
        /\ keyring # <<>>
        /\ Stored(keyring).RefreshToken # ""
        /\ Stored(keyring).RefreshToken =
              IF gv.reply.refresh = "" THEN Stored(gv.had).RefreshToken
              ELSE gv.reply.refresh

\* The second refresh in a row whose reply carried no refresh token: the
\* entry still holds the refresh token of the login.
C13_Witness ==
    /\ gv.pc = "done"
    /\ gv.trips = 1
    /\ gv.ret.kind = "token"
    /\ gv.reply.refresh = ""
    /\ gv.old.AccessToken = "tok2"
    /\ keyring # <<>>
    /\ Stored(keyring).RefreshToken = "ref1"

\* C14: a GetValidToken call that found no entry in a keyring that answered
\* has returned the not-logged-in error, has sent no request, and the
\* keyring is still empty.
C14_EmptyStoreNotLoggedIn ==
    (gv.pc = "done" /\ gv.kr /\ gv.had = <<>>) =>
        /\ gv.ret = ReturnError(NotLoggedIn)
        /\ gv.trips = 0
        /\ gv.sets = 0
        /\ keyring = <<>>

\* A call on the empty keyring has returned the not-logged-in error, after
\* a logout emptied the keyring.
C14_Witness ==
    /\ gv.pc = "done"
    /\ gv.kr
    /\ gv.had = <<>>
    /\ life = "logout"
    /\ gv.ret.err = NotLoggedIn
    /\ gv.trips = 0
    /\ keyring = <<>>

\* C15: `auth status` (GetTokenInfo) has left the keyring entry as it found
\* it and has started no GetValidToken call, hence no refresh; when the
\* keyring answered (and config.Init succeeded) it reported: no token when
\* there was no entry, and otherwise the token's presence, its stored
\* expiry and type, and expired exactly when that expiry was strictly
\* before the time of the command.
C15_InspectReadOnly ==
    cmd.op = "status" =>
        /\ keyring = cmd.had
        /\ gv = IdleCall
        /\ (cmd.kr /\ cmd.err = "") => cmd.called
        /\ cmd.called =>
            IF cmd.had = <<>>
            THEN cmd.info = NoInfo /\ cmd.out = "Not logged in"
            ELSE /\ cmd.info =
                      [HasToken |-> TRUE,
                       Expiry |-> Stored(cmd.had).Expiry,
                       IsExpired |-> Stored(cmd.had).Expiry < cmd.at,
                       TokenType |-> Stored(cmd.had).TokenType]
                 /\ cmd.out = IF Stored(cmd.had).Expiry < cmd.at
                              THEN "Expired (will refresh on next use)"
                              ELSE "Valid"

\* `auth status` has reported as valid a token that expires at the very
\* instant of the command.
C15_Witness ==
    /\ cmd.op = "status"
    /\ cmd.called
    /\ cmd.had # <<>>
    /\ keyring = cmd.had
    /\ cmd.info.HasToken
    /\ cmd.info.Expiry = cmd.at
    /\ ~cmd.info.IsExpired
    /\ cmd.out = "Valid"

\* C16: after a SetToken(t) that the keyring accepted, by `auth login` or
\* by GetValidToken, GetToken decodes a token equal to t in its access
\* token, token type, refresh token and expiry, whatever entry was there
\* before.
C16_SetGetRoundTrip ==
    /\ (cmd.op = "login" /\ cmd.kr) =>
          /\ cmd.err = ""
          /\ GetToken(TRUE) = [err |-> "", found |-> TRUE, token |-> cmd.token]
    /\ (gv.pc = "done" /\ gv.sets = 1 /\ gv.ret.kind = "token") =>
          GetToken(TRUE) = [err |-> "", found |-> TRUE, token |-> gv.token]

\* A token without a token type and without an expiry, with a refresh
\* token, has been stored over another entry and is read back as it was.
C16_Witness ==
    /\ cmd.op = "login"
    /\ cmd.kr
    /\ cmd.had # <<>>
    /\ cmd.had # keyring
    /\ cmd.token.TokenType = ""
    /\ cmd.token.RefreshToken = "ref1"
    /\ cmd.token.Expiry = 0
    /\ GetToken(TRUE).token = cmd.token

\* C17: `auth logout` (DeleteToken) on a keyring that answers has
\* succeeded, whether there was an entry or not, and GetToken then reports
\* no token and no error.
C17_DeleteIdempotent ==
    (cmd.op = "logout" /\ cmd.kr) =>
        /\ cmd.err = ""
        /\ cmd.out = "Logged out successfully"
        /\ keyring = <<>>
        /\ GetToken(TRUE) = [err |-> "", found |-> FALSE, token |-> NoToken]

\* A second logout in a row, on the keyring the first one emptied, has
\* succeeded.
C17_Witness ==
    /\ cmd.op = "logout"
    /\ cmd.kr
    /\ cmd.had = <<>>
    /\ life = "logout"
    /\ cmd.err = ""
    /\ keyring = <<>>
    /\ ~GetToken(TRUE).found

\* What `auth status` reports of the entry in the keyring at time t.
Reports(t) ==
    [HasToken |-> TRUE, Expiry |-> Stored(keyring).Expiry,
     IsExpired |-> Stored(keyring).Expiry < t,
     TokenType |-> Stored(keyring).TokenType]

\* C18, as claimed: after a login or a refresh `auth status` reports the
\* token present, and expired exactly once its expiry has passed; after a
\* logout it reports no token; and a GetValidToken call that found the token
\* expired has made exactly one refresh round-trip and has returned an
\* updated token, which `auth status` reports as present and not expired.
C18_Lifecycle ==
    /\ (cmd.op = "status" /\ cmd.called /\ life \in {"login", "refreshed"})
          => cmd.info = Reports(cmd.at)
    /\ (cmd.op = "status" /\ cmd.called /\ life \in {"none", "logout"})
          => cmd.info = NoInfo
    /\ (gv.pc = "done" /\ gv.expired) =>
          /\ gv.trips = 1
          /\ gv.ret.kind = "token"
          /\ gv.ret.token.AccessToken # gv.old.AccessToken
          /\ GetTokenInfo(TRUE).info.HasToken
          /\ gv.ret.token.Expiry > gv.at

\* C18, amended: the reports of `auth status` are as claimed; a
\* GetValidToken call that found the token expired has made at most one
\* round-trip; when it returns a token, that token is the one in the keyring,
\* and after a round-trip it carries the reply's access token and, when the
\* reply stated a lifetime, an expiry after the time of the call, so that
\* `auth status` reports it as not expired until that expiry has passed;
\* when it returns an error, the keyring entry is as it was and is still
\* reported present and expired.
C18_LifecycleAmended ==
    /\ (cmd.op = "status" /\ cmd.called /\ life \in {"login", "refreshed"})
          => cmd.info = Reports(cmd.at)
    /\ (cmd.op = "status" /\ cmd.called /\ life \in {"none", "logout"})
          => cmd.info = NoInfo
    /\ (gv.pc = "done" /\ gv.expired) =>
          /\ gv.trips \in {0, 1}
          /\ gv.ret.kind = "token" =>
                /\ life = "refreshed"
                /\ keyring # <<>>
                /\ Stored(keyring) = gv.ret.token
                /\ GetTokenInfo(TRUE).info = Reports(now)
                /\ gv.trips = 1 =>
                      /\ gv.ret.token.AccessToken = gv.reply.access
                      /\ gv.reply.expires_in # 0 =>
                            /\ gv.ret.token.Expiry > gv.at
                            /\ gv.ret.token.Expiry > gv.old.Expiry
          /\ gv.ret.kind = "error" =>
                /\ keyring = gv.had
                /\ GetTokenInfo(TRUE).info = Reports(now)
                /\ GetTokenInfo(TRUE).info.IsExpired

\* After a login, the passing of the expiry and a refresh, `auth status`
\* reports the refreshed token as present and not expired.
C18_Witness ==
    /\ cmd.op = "status"
    /\ cmd.called
    /\ life = "refreshed"
    /\ keyring # <<>>
    /\ Stored(keyring).AccessToken = "tok2"
    /\ cmd.info.HasToken
    /\ ~cmd.info.IsExpired

(***************************************************************************)
(* Further properties of the login flow.                                   *)
(***************************************************************************)
\* C19: a LoginFlow call makes at most one code exchange; when it has made
\* one, the select had taken a code, the exchange sent that code and the
\* redirect URL of the authorization URL this call built, and the call has
\* returned with the token or with the exchange error; a call whose select
\* took an error or the timeout has made no exchange; and a call that
\* returned after its select took a code has made its one exchange.
C19_ExchangeAtMostOnce ==
    /\ Len(exchanges) <= 1
    /\ exchanges # <<>> =>
          /\ outcome = [kind |-> "Completed", val |-> exchanges[1].code]
          /\ urls # <<>>
          /\ exchanges[1].redirect = urls[Len(urls)].redirect_uri
          /\ exchanges[1].redirect = RedirectURL(port)
          /\ pc = "returned"
          /\ \/ result.kind = "token"
             \/ result = [kind |-> "error",
                          val |-> ExchangeError("invalid_grant")]
    /\ outcome.kind \in {"Failed", "TimedOut"} => exchanges = <<>>
    /\ (pc = "returned" /\ outcome.kind = "Completed") => Len(exchanges) = 1

\* The second login attempt, on another port than the first, has made its
\* one exchange, which failed, and has returned the exchange error.
C19_Witness ==
    /\ pc = "returned"
    /\ attempt = 2
    /\ Len(urls) = 2
    /\ urls[1].redirect_uri # urls[2].redirect_uri
    /\ Len(exchanges) = 1
    /\ exchanges[1].redirect = urls[2].redirect_uri
    /\ exchanges[1].code = outcome.val
    /\ result = [kind |-> "error", val |-> ExchangeError("invalid_grant")]

BrowserFailedLine == "Could not open browser automatically"
BrowserFailed == \E i \in 1..Len(printed) : printed[i] = BrowserFailedLine

\* C20: the authorization URL is printed before browser.OpenURL is called,
\* and a failure of that call is only printed, after the URL: the call goes
\* on to the select, whose cases are ready exactly as the channels and the
\* timer make them, and what it returns is decided by the case taken and by
\* the exchange alone.
C20_BrowserFailureNotFatal ==
    /\ (pc = "openBrowser" \/ Listened) =>
          /\ Len(printed) \in {3, 4}
          /\ printed[3] = "authURL"
          /\ \A i \in 1..Len(printed) :
                printed[i] = BrowserFailedLine => i = 4
    /\ BrowserFailed =>
          /\ Listened
          /\ pc \in {"select", "shutdown", "shutdownWait", "exchange",
                     "returned"}
    /\ pc = "select" =>
          /\ ENABLED SelectCode <=> codeChan # <<>>
          /\ ENABLED SelectErr <=> errChan # <<>>
          /\ ENABLED SelectTimeout <=> timer = "fired"
    /\ (pc = "returned" /\ Listened) =>
          /\ outcome.kind \in TerminalKinds
          /\ outcome.kind = "Completed" =>
                \/ result.kind = "token"
                \/ result = [kind |-> "error",
                             val |-> ExchangeError("invalid_grant")]
          /\ outcome.kind # "Completed" =>
                result = [kind |-> "error", val |-> outcome.val]

\* The browser could not be opened, and the call has still returned a token.
C20_Witness ==
    /\ BrowserFailed
    /\ printed[3] = "authURL"
    /\ pc = "returned"
    /\ outcome.kind = "Completed"
    /\ result.kind = "token"

(***************************************************************************)
(* Two GetValidToken calls at once.                                        *)
(***************************************************************************)
\* The call has stored a token.
Wrote(call) == call.sets = 1 /\ call.ret.kind = "token"

\* C21: while two GetValidToken calls that each loaded a token run, the
\* keyring holds one whole token at every moment; and when both have
\* returned, the entry is the token of the call whose SetToken came last,
\* or, when neither call has written, the entry the calls found.
C21_LastWriteWins ==
    /\ (gv.old # NoToken \/ gv2.old # NoToken) =>
          /\ Len(keyring) = 1
          /\ Stored(keyring).AccessToken # ""
          /\ keyring = <<Marshal(Stored(keyring))>>
    /\ (gv.pc = "done" /\ gv2.pc = "done" /\ gv.old # NoToken
                       /\ gv2.old # NoToken) =>
          keyring = CASE Wrote(gv) /\ (Wrote(gv2) => life = "refreshed")
                           -> <<Marshal(gv.token)>>
                      [] Wrote(gv2) /\ (Wrote(gv) => life = "refreshed2")
                           -> <<Marshal(gv2.token)>>
                      [] OTHER -> gv.had

\* Both calls found the token expired at the same time, each has made its
\* round-trip and has stored its token, the two tokens differ, and the
\* entry is the token of the first call, which wrote last.
C21_Witness ==
    /\ gv.pc = "done"
    /\ gv2.pc = "done"
    /\ gv.expired
    /\ gv2.expired
    /\ gv.had = gv2.had
    /\ gv.trips = 1
    /\ gv2.trips = 1
    /\ gv.ret.kind = "token"
    /\ gv2.ret.kind = "token"
    /\ gv.token # gv2.token
    /\ life = "refreshed"
    /\ keyring = <<Marshal(gv.token)>>

(***************************************************************************)
(* The callback's state parameter, and the login command.                  *)
(***************************************************************************)
\* C26: when the select has taken a code, that code came from a callback
\* whose state parameter is the state of the authorization URL this call
\* built.
C26_StateChecked ==
    outcome.kind = "Completed" =>
        \E r \in Reqs :
            /\ reqs[r].st = "done"
            /\ reqs[r].q.code = outcome.val
            /\ reqs[r].q.state = urls[Len(urls)].state

\* C27: in a run of `auth login`, the only step that changes the keyring
\* entry is the SetToken after LoginFlow has returned a token, which makes
\* the entry that token; and when the command ends, the entry is the new
\* token if LoginFlow returned one and the keyring took it, and otherwise
\* the entry that was there, with an error returned.
C27_StoreWrittenOnlyOnSuccess ==
    [][/\ keyring' # keyring =>
            /\ pc = "returned"
            /\ result.kind = "token"
            /\ cmd.op = "none"
            /\ cmd'.op = "login"
            /\ keyring' = <<Marshal(IssuedFor(exchanges[1].code))>>
       /\ (cmd.op = "none" /\ cmd'.op = "login") =>
            IF result.kind = "token" /\ cmd'.kr
            THEN /\ keyring' = <<Marshal(IssuedFor(exchanges[1].code))>>
                 /\ cmd'.err = ""
            ELSE /\ keyring' = keyring
                 /\ cmd'.err # ""]_vars

\* A second `auth login` has failed, and the token the first one stored is
\* still the entry.
C27_Witness ==
    /\ cmd.op = "login"
    /\ pc = "returned"
    /\ attempt = 2
    /\ result.kind = "error"
    /\ cmd.err # ""
    /\ cmd.had # <<>>
    /\ keyring = cmd.had

(***************************************************************************)
(* Properties of the reporting commands' date ranges.                      *)
(***************************************************************************)
\* C23: the two date ranges `gsc drops --days N` has computed each cover N
\* days, and the previous range ends before the current range starts.
C23_DropsPeriods ==
    dates.cmd = "drops" =>
        /\ DaysCovered(dates.cur) = dates.days
        /\ DaysCovered(dates.prev) = dates.days
        /\ DayNumber(dates.prev.end) < DayNumber(dates.cur.start)

\* C25: the date range `gsc queries` has computed ends 3 days before the
\* day of the command; with --days N it covers N days, start and end
\* included, and without the flag it covers 28 days and is the range of
\* --days 28.
C25_QueriesRange ==
    dates.cmd = "queries" =>
        /\ dates.cur.end = Format(dates.at - 3)
        /\ dates.days > 0 => DaysCovered(dates.cur) = dates.days
        /\ dates.days = 0 =>
              /\ DaysCovered(dates.cur) = 28
              /\ dates.cur = DateRangeForDays(dates.at, 28)

\* C28: the ranges GetComparisonPeriod has returned each cover 7 days, or
\* 30 for "month"; the current one ends 3 days before the day of the call,
\* the previous one ends the day before the current one starts; and a
\* period other than "week" and "month" gives the ranges of "week".
C28_ComparisonPeriod ==
    dates.cmd = "compare" =>
        LET n == IF dates.period = "month" THEN 30 ELSE 7 IN
        /\ DaysCovered(dates.cur) = n
        /\ DaysCovered(dates.prev) = n
        /\ dates.cur.end = Format(dates.at - 3)
        /\ DayNumber(dates.prev.end) + 1 = DayNumber(dates.cur.start)
        /\ Format(DayNumber(dates.prev.end) + 1) = dates.cur.start
        /\ dates.period \notin {"week", "month"} =>
              [cur |-> dates.cur, prev |-> dates.prev]
                  = GetComparisonPeriod(dates.at, "week")

\* A month comparison whose current range starts in February and ends in
\* March of a leap year, after a previous range that starts in January.
C28_Witness ==
    /\ dates.cmd = "compare"
    /\ dates.period = "month"
    /\ dates.cur.start[2] = 2
    /\ dates.cur.end = <<2024, 3, 10>>
    /\ dates.prev.start[2] = 1
    /\ DaysCovered(dates.cur) = 30
    /\ DaysCovered(dates.prev) = 30

(***************************************************************************)
(* Properties of the rows `gsc drops` and `gsc compare` report.            *)
(***************************************************************************)
\* The rows of a result set that are about a query.
RowsOf(s, query) == {s[i] : i \in {j \in DOMAIN s : s[j].Query = query}}

\* The metrics of a query in a result set, all 0 when it has no row there.
MetricsOf(s, query) ==
    IF RowsOf(s, query) = {}
    THEN [Clicks |-> 0, Impressions |-> 0, Position |-> 0]
    ELSE LET r == CHOOSE r \in RowsOf(s, query) : TRUE
         IN  [Clicks |-> r.Clicks, Impressions |-> r.Impressions,
              Position |-> r.Position]

\* C22: a query with a row in both periods is among the rows `gsc drops`
\* found only when its current position minus its previous position is
\* strictly greater than --threshold.
C22_DropStrictlyGreater ==
    report.op = "drops" =>
        \A i \in DOMAIN report.found :
            \A c \in RowsOf(rows.current, report.found[i].Query),
               p \in RowsOf(rows.previous, report.found[i].Query) :
                c.Position - p.Position > report.threshold

\* C24: with --sort clicks, the rows `gsc compare` prints are in order of
\* clicks delta: no row has a larger ClicksDelta than the row before it.
C24_SortedByClicksDelta ==
    (report.op = "compare" /\ report.sortBy = "clicks") =>
        \A i \in DOMAIN report.out :
            i + 1 \in DOMAIN report.out =>
                report.out[i].ClicksDelta >= report.out[i + 1].ClicksDelta

\* C29: buildComparison returns exactly one row for each query that has a
\* row in either period and no other row; a row's current and previous
\* values are the query's metrics in the two periods, 0 where it has no
\* row; each delta is current minus previous; and the percentage change of
\* clicks (impressions) is 0 when the previous clicks (impressions) are 0.
C29_BuildComparison ==
    report.op = "compare" =>
        LET queries == {rows.current[i].Query : i \in DOMAIN rows.current}
                       \cup {rows.previous[i].Query : i \in DOMAIN rows.previous}
        IN
        /\ \A q \in queries :
               Cardinality({i \in DOMAIN report.found :
                               report.found[i].Query = q}) = 1
        /\ \A i \in DOMAIN report.found :
               LET r == report.found[i]
                   c == MetricsOf(rows.current, r.Query)
                   p == MetricsOf(rows.previous, r.Query)
               IN
               /\ r.Query \in queries
               /\ r.CurrentClicks = c.Clicks
               /\ r.PreviousClicks = p.Clicks
               /\ r.CurrentImpressions = c.Impressions
               /\ r.PreviousImpressions = p.Impressions
               /\ r.CurrentPosition = c.Position
               /\ r.PreviousPosition = p.Position
               /\ r.ClicksDelta = c.Clicks - p.Clicks
               /\ r.ImpressionsDelta = c.Impressions - p.Impressions
               /\ r.PositionDelta = c.Position - p.Position
               /\ p.Clicks = 0 => r.ClicksPercent.num = 0
               /\ p.Impressions = 0 => r.ImpressionsPercent.num = 0

\* A comparison of two queries: one has a row in the current period only,
\* the other a row in both with clicks now and no clicks before.
C29_Witness ==
    /\ report.op = "compare"
    /\ Len(report.found) = 2
    /\ \E i \in DOMAIN report.found :
           /\ RowsOf(rows.previous, report.found[i].Query) = {}
           /\ report.found[i].CurrentClicks > 0
           /\ report.found[i].ClicksPercent.num = 0
    /\ \E i \in DOMAIN report.found :
           /\ RowsOf(rows.previous, report.found[i].Query) # {}
           /\ report.found[i].PreviousClicks = 0
           /\ report.found[i].CurrentClicks > 0
           /\ report.found[i].ImpressionsPercent.num # 0

\* C30: every row findDrops has returned is about a query with a row in the
\* previous period that passes the --min-clicks filter, and its
\* PositionDrop is at least the threshold; a row about a query without a
\* row in the current period has current position 100, and the query's
\* previous position was at most 20 with at least 100 impressions.
C30_FindDropsRows ==
    report.op = "drops" =>
        \A i \in DOMAIN report.found :
            LET r == report.found[i] IN
            /\ RowsOf(rows.previous, r.Query) # {}
            /\ \A p \in RowsOf(rows.previous, r.Query) :
                   /\ report.minClicks > 0 => p.Clicks >= report.minClicks
                   /\ RowsOf(rows.current, r.Query) = {} =>
                          /\ r.CurrentPosition = 100
                          /\ p.Position <= 20
                          /\ p.Impressions >= 100
            /\ r.PositionDrop >= report.threshold

=============================================================================
